---- MODULE Spec2Model ----
(***************************************************************************)
(* Model of skyrim-search-se's console hook (src/src/console.rs).          *)
(*                                                                         *)
(* Text is modelled at the level the code works on it: the console input   *)
(* is a sequence of characters (one-character strings) which the hook      *)
(* decodes, tokenizes shell-style, lower-cases and matches; the text given *)
(* to print is a sequence of bytes which print splits on newlines and cuts *)
(* in chunks of 1024 bytes.                                                *)
(***************************************************************************)
EXTENDS Integers, Sequences, FiniteSets, TLC

VARIABLES
    initPc,     \* where init (console.rs:181-193) stands
    initResult, \* what init returned: "none" until it returns
    assigned,   \* number of times LateStatic::assign(&S, ..) ran
    installed,  \* number of times ProcessConsoleInput.initialize succeeded
    enabled,    \* number of times ProcessConsoleInput.enable succeeded
    dbLock,     \* the Mutex of db::DB: "free" or "held"
    queries,    \* number of times DB.lock() was taken so far
    alive,      \* the host process has not been brought down by a panic
    raw,        \* input text in the host's console buffer
    params,     \* <<param1, param2, param3, param4>> of the call
    trace,      \* what the interception call did, in order
    store,      \* what the store answers to the statement of this input
    result,     \* what the closure returned; "idle": no call in progress,
                \* "none": the host has made the call, the hook has not run
    lines,      \* the lines of the text print is called with
    ctxNull,    \* *console_context is null
    hostPrints, \* chunks print handed to print_to_console, in order
    printLog,   \* what print handed to logging_ok: "none" before the call
    cellVal,    \* an integer cell row.get_raw yields
    cellDec,    \* print_int_as_decimal
    cellText    \* the text the cell is rendered as: "none" before that

vars == <<initPc, initResult, assigned, installed, enabled, dbLock, queries,
          alive, raw, params, store, trace, result,
          lines, ctxNull, hostPrints, printLog, cellVal, cellDec, cellText>>
initVars == <<initPc, initResult, assigned, installed, enabled>>
hookVars == <<dbLock, queries, alive, raw, params, store, trace, result>>
printVars == <<lines, ctxNull, hostPrints, printLog>>
cellVars == <<cellVal, cellDec, cellText>>

----------------------------------------------------------------------------
(* Options and small helpers                                               *)

None == [some |-> FALSE]
Some(v) == [some |-> TRUE, v |-> v]

Min(a, b) == IF a < b THEN a ELSE b

RECURSIVE Flatten(_)
Flatten(ss) == IF ss = <<>> THEN <<>> ELSE Head(ss) \o Flatten(Tail(ss))

----------------------------------------------------------------------------
(* Characters                                                              *)

SP == " "
TAB == "\t"
NL == "\n"
CR == "\r"
DQ == "\""
SQ == "'"
BS == "\\"
HASH == "#"
DOLLAR == "$"
\* the backquote character
BQ == "<bq>"
\* a byte that is not valid UTF-8 wherever it stands (0xff)
BAD == "<ff>"

UpperCase == <<"A","B","C","D","E","F","G","H","I","J","K","L","M",
               "N","O","P","Q","R","S","T","U","V","W","X","Y","Z">>
LowerCase == <<"a","b","c","d","e","f","g","h","i","j","k","l","m",
               "n","o","p","q","r","s","t","u","v","w","x","y","z">>

\* u8::to_ascii_lowercase
CharToAsciiLowercase(c) ==
    IF \E i \in 1..26 : UpperCase[i] = c
    THEN LowerCase[CHOOSE i \in 1..26 : UpperCase[i] = c]
    ELSE c

\* str::to_ascii_lowercase
to_ascii_lowercase(s) == [i \in 1..Len(s) |-> CharToAsciiLowercase(s[i])]

\* the characters shlex treats as white space
ShlexSpace == {SP, TAB, NL}
\* the characters split_ascii_whitespace treats as white space
AsciiSpace == {SP, TAB, NL, CR}

----------------------------------------------------------------------------
(* shlex::split, as new_process_console_input calls it (console.rs:57)     *)

\* Shlex::parse_double: i is the index of the next unread character
RECURSIVE parse_double(_, _, _)
parse_double(s, i, acc) ==
    IF i > Len(s) THEN [ok |-> FALSE]
    ELSE IF s[i] = BS THEN
        IF i + 1 > Len(s) THEN [ok |-> FALSE]
        ELSE IF s[i+1] \in {DOLLAR, BQ, DQ, BS}
             THEN parse_double(s, i + 2, Append(acc, s[i+1]))
        ELSE IF s[i+1] = NL THEN parse_double(s, i + 2, acc)
        ELSE parse_double(s, i + 2, acc \o <<BS, s[i+1]>>)
    ELSE IF s[i] = DQ THEN [ok |-> TRUE, i |-> i + 1, acc |-> acc]
    ELSE parse_double(s, i + 1, Append(acc, s[i]))

\* Shlex::parse_single
RECURSIVE parse_single(_, _, _)
parse_single(s, i, acc) ==
    IF i > Len(s) THEN [ok |-> FALSE]
    ELSE IF s[i] = SQ THEN [ok |-> TRUE, i |-> i + 1, acc |-> acc]
    ELSE parse_single(s, i + 1, Append(acc, s[i]))

\* Shlex::parse_word: s[i] is the character the word starts or goes on with
RECURSIVE parse_word(_, _, _)
parse_word(s, i, acc) ==
    LET Go(j, a) == IF j <= Len(s) THEN parse_word(s, j, a)
                    ELSE [ok |-> TRUE, i |-> j, acc |-> a]
    IN  IF s[i] = DQ THEN
            LET r == parse_double(s, i + 1, acc)
            IN  IF r.ok THEN Go(r.i, r.acc) ELSE [ok |-> FALSE]
        ELSE IF s[i] = SQ THEN
            LET r == parse_single(s, i + 1, acc)
            IN  IF r.ok THEN Go(r.i, r.acc) ELSE [ok |-> FALSE]
        ELSE IF s[i] = BS THEN
            IF i + 1 > Len(s) THEN [ok |-> FALSE]
            ELSE Go(i + 2, IF s[i+1] = NL THEN acc ELSE Append(acc, s[i+1]))
        ELSE IF s[i] \in ShlexSpace THEN [ok |-> TRUE, i |-> i + 1, acc |-> acc]
        ELSE Go(i + 1, Append(acc, s[i]))

\* the head of Shlex::next: skip white space and comments; the index of the
\* first character of the next word, or 0 at the end of the input
RECURSIVE skip_blank(_, _)
skip_blank(s, i) ==
    IF i > Len(s) THEN 0
    ELSE IF s[i] \in ShlexSpace THEN skip_blank(s, i + 1)
    ELSE IF s[i] = HASH THEN
        LET nls == {j \in (i+1)..Len(s) : s[j] = NL}
        IN  IF nls = {} THEN 0
            ELSE skip_blank(s, (CHOOSE j \in nls : \A k \in nls : j <= k) + 1)
    ELSE i

\* collecting the iterator, then had_error decides between None and Some
RECURSIVE shlex_collect(_, _, _)
shlex_collect(s, i, toks) ==
    LET p == skip_blank(s, i)
    IN  IF p = 0 THEN Some(toks)
        ELSE LET r == parse_word(s, p, <<>>)
             IN  IF r.ok THEN shlex_collect(s, r.i, Append(toks, r.acc))
                 ELSE None

shlex_split(s) == shlex_collect(s, 1, <<>>)

\* input.trim_start().split_ascii_whitespace().next() (console.rs:60)
first_word(s) ==
    LET starts == {i \in 1..Len(s) : s[i] \notin AsciiSpace}
    IN  IF starts = {} THEN None
        ELSE LET b == CHOOSE i \in starts : \A k \in starts : i <= k
                 ends == {j \in b..Len(s) : s[j] \in AsciiSpace}
                 e == IF ends = {} THEN Len(s)
                      ELSE (CHOOSE j \in ends : \A k \in ends : j <= k) - 1
             IN  Some(SubSeq(s, b, e))

\* CStr::to_str (console.rs:46): fails on bytes that are not UTF-8
to_str(s) == IF \E i \in 1..Len(s) : s[i] = BAD THEN None ELSE Some(s)

----------------------------------------------------------------------------
(* Text of messages: Rust strings that are only formatted and printed are  *)
(* TLA+ strings                                                            *)

RECURSIVE Str(_)
\* the characters of s as one string
Str(s) == IF s = <<>> THEN "" ELSE Head(s) \o Str(Tail(s))

RECURSIVE JoinStr(_, _)
\* [&str]::join
JoinStr(ss, sep) ==
    IF ss = <<>> THEN ""
    ELSE IF Len(ss) = 1 THEN ss[1]
    ELSE ss[1] \o sep \o JoinStr(Tail(ss), sep)

\* {:?} of a Vec<String>
DebugVec(toks) ==
    "[" \o JoinStr([i \in 1..Len(toks) |-> DQ \o Str(toks[i]) \o DQ], ", ") \o "]"

----------------------------------------------------------------------------
(* The command grammar of get_clap (console.rs:21-40), parsed the way      *)
(* clap 2 parses it                                                        *)

SKYRIM_SEARCH_COMMANDS ==
    { <<"s","s">>, <<"s","s","s">>,
      <<"s","k","y","r","i","m","s","e","a","r","c","h">>,
      <<"s","k","y","r","i","m","s","e","a","r","c","h","s","e">> }

QueryName == <<"q","u","e","r","y">>
LongHelp == <<"-","-","h","e","l","p">>
LongVersion == <<"-","-","v","e","r","s","i","o","n">>
LongIntAsDecimal ==
    <<"-","-","i","n","t","-","a","s","-","d","e","c","i","m","a","l">>
DashDash == <<"-","-">>

IsPrefix(p, s) == Len(p) <= Len(s) /\ SubSeq(s, 1, Len(p)) = p

\* is_new_arg: a token that is looked up as a flag
StartsNewArg(tok) == Len(tok) >= 2 /\ tok[1] = "-"

ClapUsage == "USAGE:\n    skyrim-search-se <SUBCOMMAND>"
ClapHelp ==
    "skyrim-search-se 0.1\n\n" \o ClapUsage \o
    "\n\nFLAGS:\n    -h, --help       Prints help information" \o
    "\n    -V, --version    Prints version information" \o
    "\n\nSUBCOMMANDS:\n    query    execute raw query"
ClapQueryUsage == "USAGE:\n    skyrim-search-se query [FLAGS] <sql>..."
ClapQueryHelp ==
    "skyrim-search-se-query \nexecute raw query\n\n" \o ClapQueryUsage \o
    "\n\nFLAGS:\n    -h, --help              Prints help information" \o
    "\n        --int-as-decimal    print integer in decimal format." \o
    " otherwise, it's printed in hexademical format." \o
    "\n\nARGS:\n    <sql>...    SQLite SQL"
ClapMore == "\n\nFor more information try --help"

ClapErr(kind, message) == [ok |-> FALSE, kind |-> kind, message |-> message]

\* the parser of the subcommand built at console.rs:28-39, on the tokens that
\* follow the subcommand name.  trailing: the TrailingValues setting;
\* flag: --int-as-decimal was seen; sql: the values of <sql> so far
RECURSIVE ParseQuery(_, _, _, _)
ParseQuery(toks, trailing, flag, sql) ==
    IF toks = <<>> THEN
        IF sql = <<>>
        THEN ClapErr("MissingRequiredArgument",
                 "error: The following required arguments were not provided:" \o
                 "\n    <sql>...\n\n" \o ClapQueryUsage \o ClapMore)
        ELSE [ok |-> TRUE, subcommand |-> "query", sql |-> sql,
              int_as_decimal |-> flag]
    ELSE LET t == Head(toks) IN
        IF trailing THEN ParseQuery(Tail(toks), TRUE, flag, Append(sql, t))
        ELSE IF t = DashDash THEN ParseQuery(Tail(toks), TRUE, flag, sql)
        ELSE IF StartsNewArg(t) THEN
            IF t = LongHelp \/ t = <<"-","h">>
            THEN ClapErr("HelpDisplayed", ClapQueryHelp)
            ELSE IF t = LongIntAsDecimal THEN
                IF flag
                THEN ClapErr("UnexpectedMultipleUsage",
                         "error: The argument '--int-as-decimal' was provided " \o
                         "more than once, but cannot be used multiple times" \o
                         "\n\n" \o ClapQueryUsage \o ClapMore)
                ELSE ParseQuery(Tail(toks), FALSE, TRUE, sql)
            ELSE ClapErr("UnknownArgument",
                     "error: Found argument '" \o Str(t) \o "' which wasn't " \o
                     "expected, or isn't valid in this context\n\n" \o
                     ClapQueryUsage \o ClapMore)
        \* the first value of the last positional: TrailingVarArg
        ELSE ParseQuery(Tail(toks), TRUE, flag, Append(sql, t))

\* get_clap().get_matches_from_safe(input) (console.rs:75); input[1] is the
\* program name
get_matches_from_safe(input) ==
    LET args == Tail(input) IN
    IF args = <<>>
    THEN ClapErr("MissingArgumentOrSubcommand", ClapHelp)
    ELSE LET t == Head(args) IN
        IF t = DashDash THEN
            IF Tail(args) = <<>>
            THEN ClapErr("MissingArgumentOrSubcommand", ClapHelp)
            ELSE ClapErr("UnrecognizedSubcommand",
                     "error: The subcommand '" \o Str(args[2]) \o
                     "' wasn't recognized\n\n" \o ClapUsage \o ClapMore)
        \* InferSubcommands: any prefix of the only subcommand names it
        ELSE IF IsPrefix(t, QueryName)
        THEN ParseQuery(Tail(args), FALSE, FALSE, <<>>)
        ELSE IF StartsNewArg(t) THEN
            IF t = LongHelp \/ t = <<"-","h">>
            THEN ClapErr("HelpDisplayed", ClapHelp)
            ELSE IF t = LongVersion \/ t = <<"-","V">>
            THEN ClapErr("VersionDisplayed", "")
            ELSE ClapErr("UnknownArgument",
                     "error: Found argument '" \o Str(t) \o "' which wasn't " \o
                     "expected, or isn't valid in this context\n\n" \o
                     ClapUsage \o ClapMore)
        \* DisableHelpSubcommand: help is a word like any other
        ELSE ClapErr("UnrecognizedSubcommand",
                 "error: The subcommand '" \o Str(t) \o
                 "' wasn't recognized\n\n" \o ClapUsage \o ClapMore)

\* impl Display for clap::Error, which anyhow's {:#} prints
ClapDisplay(e) == e.message \o "\n"

----------------------------------------------------------------------------
(* The embedded store as process_query_command sees it: what preparing,    *)
(* executing and iterating one statement answers                           *)

MaxCols == 2
MaxRows == 2

\* rusqlite::types::ValueRef
ValNull == [t |-> "Null"]
ValInteger(v) == [t |-> "Integer", v |-> v]
ValReal(s) == [t |-> "Real", s |-> s]
ValText(s) == [t |-> "Text", s |-> s]
ValBlob(n) == [t |-> "Blob", len |-> n]
\* the values a row cycles through, column after column
ValCycle == <<ValNull, ValInteger(255), ValInteger(-1), ValText("Lydia"),
              ValReal("0.5"), ValBlob(3)>>

ColumnNames == <<"id", "name", "edid">>

\* three rows of n columns that between them hold every kind of value
RowSet(n) == [r \in 0..2 |-> [c \in 1..n |-> ValCycle[((2 * r + c - 1) % 6) + 1]]]

\* up to MaxRows rows in a row, starting from any of the three
RowsOf(n) ==
    {[i \in 1..k |-> RowSet(n)[(first + i - 1) % 3]] :
        first \in 0..2, k \in 0..MaxRows}

\* sqlite's message when rows.next() fails
IterCause == "database disk image is malformed"

\* prepare/query failed: err names the failing call, cause is sqlite's message
\* otherwise: columns is rows.column_count(), names tells whether
\* rows.column_names() is Some, rows are the rows rows.next() yields and
\* iter_err tells whether the call after the last row fails.
\* Rows::column_count and Rows::column_names are both self.stmt.map(..), and
\* Statement::query returns Rows with stmt set, so at console.rs:101 and 108
\* both are Some; a statement without result columns (DDL, DML) has
\* column_count Some(0) and no rows.
DbOutcomes ==
    { [err |-> "prepare", cause |-> "near \"from\": syntax error"],
      [err |-> "query", cause |-> "database is locked"] }
    \cup
    UNION { { [err |-> "none", columns |-> Some(n), names |-> TRUE,
                rows |-> rs, iter_err |-> ie] :
                   ie \in BOOLEAN, rs \in RowsOf(n) } :
            n \in 1..MaxCols }
    \cup
    { [err |-> "none", columns |-> Some(0), names |-> TRUE, rows |-> <<>>,
       iter_err |-> ie] : ie \in BOOLEAN }

----------------------------------------------------------------------------
(* Rendering of cells and of the table                                     *)

DecDigits == <<"0","1","2","3","4","5","6","7","8","9">>
HexDigits == <<"0","1","2","3","4","5","6","7","8","9",
               "a","b","c","d","e","f">>

RECURSIVE NatToString(_, _, _)
\* the digits of n >= 0 in the given base
NatToString(n, base, digits) ==
    IF n < base THEN digits[n + 1]
    ELSE NatToString(n \div base, base, digits) \o digits[(n % base) + 1]

\* i64::to_string
IntToString(v) ==
    IF v < 0 THEN "-" \o NatToString(-v, 10, DecDigits)
    ELSE NatToString(v, 10, DecDigits)

RECURSIVE ComplementNibbles(_, _)
\* the k low hexadecimal digits of the one's complement of n >= 0
ComplementNibbles(n, k) ==
    IF k = 0 THEN ""
    ELSE ComplementNibbles(n \div 16, k - 1) \o HexDigits[(15 - (n % 16)) + 1]

LowerHexSigned(v) ==
    IF v < 0 THEN "-0x" \o NatToString(-v, 16, HexDigits)
    ELSE "0x" \o NatToString(v, 16, HexDigits)

\* format!("{:#x}", v) of an i64: the digits of v's 64-bit pattern, which
\* for v < 0 is the complement of -v - 1
LowerHex(v) ==
    IF v < 0 THEN "0x" \o ComplementNibbles(-v - 1, 16)
    ELSE "0x" \o NatToString(v, 16, HexDigits)

\* console.rs:126-138
CellRepr(column, print_int_as_decimal) ==
    CASE column.t = "Null" -> "<null>"
      [] column.t = "Integer" ->
            IF print_int_as_decimal THEN IntToString(column.v)
            ELSE LowerHex(column.v)
      [] column.t = "Real" -> column.s
      [] column.t = "Text" -> column.s
      [] column.t = "Blob" -> "<" \o IntToString(column.len) \o "-byte blob>"

RECURSIVE Repeat(_, _)
Repeat(c, n) == IF n <= 0 THEN "" ELSE c \o Repeat(c, n - 1)

Max(a, b) == IF a > b THEN a ELSE b

RECURSIVE MaxOf(_)
MaxOf(ns) == IF ns = <<>> THEN 0 ELSE Max(Head(ns), MaxOf(Tail(ns)))

\* prettytable::Table::to_string under FORMAT_NO_BORDER_LINE_SEPARATOR:
\* cells padded to the column's width with one blank on each side, columns
\* separated by |, a line of dashes under the titles
TableToString(ptable) ==
    LET all == (IF ptable.titles.some THEN <<ptable.titles.v>> ELSE <<>>)
               \o ptable.rows
        ncols == MaxOf([i \in 1..Len(all) |-> Len(all[i])])
        Cell(r, c) == IF c <= Len(r) THEN r[c] ELSE ""
        width(c) == MaxOf([i \in 1..Len(all) |-> Len(Cell(all[i], c))])
        Line(r) == JoinStr([c \in 1..ncols |->
                       " " \o Cell(r, c) \o
                       Repeat(" ", width(c) - Len(Cell(r, c))) \o " "], "|")
                   \o "\n"
        Sep == JoinStr([c \in 1..ncols |-> Repeat("-", width(c) + 2)], "+")
               \o "\n"
    IN  (IF ptable.titles.some THEN Line(ptable.titles.v) \o Sep ELSE "")
        \o JoinStr([i \in 1..Len(ptable.rows) |-> Line(ptable.rows[i])], "")

----------------------------------------------------------------------------
(* What one interception call does, as a sequence of events                *)

EvDebug(msg) == [op |-> "output_debug_string", msg |-> msg]
EvPrint(msg) == [op |-> "print", msg |-> msg]
EvShlex(input) == [op |-> "shlex::split", input |-> input]
EvClap(input) == [op |-> "get_matches_from_safe", input |-> input]
EvQuery(matches) == [op |-> "process_query_command", matches |-> matches]
EvLock == [op |-> "DB.lock"]
EvUnlock == [op |-> "DB.unlock"]
EvOriginal(p) == [op |-> "ProcessConsoleInput.call", args |-> p]
EvPanic(msg) == [op |-> "panic", msg |-> msg]

GuardLeakedOnError(exit) == IF exit = "ok" THEN <<EvUnlock>> ELSE <<>>

\* the MutexGuard db of console.rs:97 is dropped wherever the function is
\* left: at the ? of console.rs:98 and 100, the bail! of 103 and 121, and
\* the end at 145
GuardDropped(exit) == <<EvUnlock>>

OnIterErrorFlush(ptable) == <<EvPrint(TableToString(ptable))>>

\* console.rs:121: bail! leaves the function; the rows gathered in ptable so
\* far are dropped with it, nothing is written
OnIterError(ptable) == <<>>

\* process_query_command (console.rs:93-145) on the matches of the query
\* subcommand, the store answering db.  The guard of DB.lock is dropped
\* wherever the function returns.
process_query_command(matches, db) ==
    LET sql == JoinStr([i \in 1..Len(matches.sql) |-> Str(matches.sql[i])], " ")
        print_int_as_decimal == matches.int_as_decimal
        enter == <<EvQuery(matches), EvLock>>
        stmt == EvPrint("stmt: Statement { sql: " \o sql \o " }")
    IN  IF db.err = "prepare" THEN
            [ok |-> FALSE, err |-> "prepare error: " \o db.cause,
             ev |-> enter \o GuardDropped("prepare")]
        ELSE IF db.err = "query" THEN
            [ok |-> FALSE, err |-> "query error: " \o db.cause,
             ev |-> enter \o <<stmt>> \o GuardDropped("query")]
        ELSE IF ~db.columns.some THEN
            [ok |-> FALSE, err |-> "no data",
             ev |-> enter \o <<stmt>> \o GuardDropped("no data")]
        ELSE
            LET column_count == db.columns.v
                titles == IF db.names
                          THEN Some(SubSeq(ColumnNames, 1, column_count))
                          ELSE None
                \* the rows added at console.rs:141 before the loop ends
                ptable == [titles |-> titles,
                           rows |-> [r \in 1..Len(db.rows) |->
                                       [i \in 1..column_count |->
                                          CellRepr(db.rows[r][i],
                                                   print_int_as_decimal)]]]
            IN  IF db.iter_err THEN
                    [ok |-> FALSE,
                     err |-> "rows.next() error: " \o IterCause,
                     ev |-> enter \o <<stmt>> \o OnIterError(ptable)
                            \o GuardDropped("rows.next()")]
                ELSE
                    [ok |-> TRUE, err |-> "",
                     ev |-> enter \o
                            <<stmt, EvPrint(TableToString(ptable))>> \o
                            GuardDropped("ok")]

IsSkyrimSearchCommandOrHelp(command) ==
    command \in SKYRIM_SEARCH_COMMANDS \cup {<<"h","e","l","p">>}

\* console.rs:69
IsSkyrimSearchCommand(command) == command \in SKYRIM_SEARCH_COMMANDS

\* console.rs:61: the word is compared as it was typed
FailedParseIsOurs(command) == command \in SKYRIM_SEARCH_COMMANDS

ParseFailedMsg == "skyrim-search-se: parse failed; falling back to skyrim engine"
UsageMsg == "skyrim-search-se usage: ss --help"
HelpWord == <<"h","e","l","p">>

ReportDecodeErrorToConsole(msg) == <<EvPrint(msg)>>

\* console.rs:50
ReportDecodeError(msg) == <<EvDebug(msg)>>

UsageRequestedAlways(command) == TRUE

\* console.rs:70
UsageRequested(command) == command = HelpWord

Returned(ret, ev, print_usage) ==
    [ret |-> ret, ev |-> ev, print_usage |-> print_usage, err |-> ""]

\* the closure of new_process_console_input (console.rs:44-81); ret is what
\* it returns, or "panic" when it does not return
closure(bytes, db) ==
    LET decoded == to_str(bytes) IN
    IF ~decoded.some THEN
        Returned("Ok(false)",
                 ReportDecodeError("invalid utf-8 sequence"), FALSE)
    ELSE IF Len(decoded.v) = 0 THEN Returned("Ok(false)", <<>>, FALSE)
    ELSE
    LET split == shlex_split(decoded.v) IN
    IF ~split.some THEN
        LET command == first_word(decoded.v)
        IN  Returned("Ok(false)",
                <<EvShlex(decoded.v)>> \o
                (IF command.some /\ FailedParseIsOurs(command.v)
                 THEN <<EvPrint(ParseFailedMsg)>> ELSE <<>>),
                FALSE)
    ELSE
    LET input == split.v IN
    \* input[0] of an empty Vec
    IF Len(input) = 0 THEN
        Returned("panic",
            <<EvShlex(decoded.v),
              EvPanic("index out of bounds: the len is 0 but the index is 0")>>,
            FALSE)
    ELSE
    LET command == to_ascii_lowercase(input[1]) IN
    IF ~IsSkyrimSearchCommand(command) THEN
        Returned("Ok(false)", <<EvShlex(decoded.v)>>, UsageRequested(command))
    ELSE
    LET matches == get_matches_from_safe(input)
        ev1 == <<EvShlex(decoded.v),
                 EvPrint("this is test; input = " \o DebugVec(input)),
                 EvClap(input)>>
    IN
    IF ~matches.ok THEN
        [ret |-> "Err", ev |-> ev1, print_usage |-> FALSE,
         err |-> ClapDisplay(matches)]
    ELSE
    LET ev2 == ev1 \o <<EvPrint("matches: ArgMatches { subcommand: query }")>>
        q == process_query_command(matches, db)
    IN
    \* the only subcommand: subcommand_matches("query") is Some
    IF ~q.ok THEN
        [ret |-> "Err", ev |-> ev2 \o q.ev, print_usage |-> FALSE,
         err |-> q.err]
    ELSE Returned("Ok(true)", ev2 \o q.ev, FALSE)

\* console.rs:82
PrintsError(ret) == ret = "Err"
ForwardsUnlessHandled(ret) == ret # "Ok(true)"

\* console.rs:85
ForwardsToOriginal(ret) == ret = "Ok(false)"

\* new_process_console_input (console.rs:42-91): the events of one call
new_process_console_input(bytes, p, db) ==
    LET c == closure(bytes, db) IN
    IF c.ret = "panic" THEN [ret |-> c.ret, ev |-> c.ev]
    ELSE [ret |-> c.ret,
          ev |-> c.ev
                 \o (IF PrintsError(c.ret) THEN <<EvPrint(c.err)>> ELSE <<>>)
                 \o (IF ForwardsToOriginal(c.ret)
                     THEN <<EvOriginal(p)>> ELSE <<>>)
                 \o (IF c.print_usage THEN <<EvPrint(UsageMsg)>> ELSE <<>>)]

----------------------------------------------------------------------------
(* Console input: what the host hands to the hook                          *)

\* white space before the first word
Leads ==
    { <<>>,
      <<SP>> }

\* first words: aliases in several cases and
\* quotings, help, a command of the host
Firsts ==
    { <<"s","s">>,
      <<"S","S">>,
      <<"S","s">>,
      <<"s","s","s">>,
      <<"s","k","y","r","i","m","s","e","a","r","c","h">>,
      <<"S","k","y","r","i","m","S","e","a","r","c","h","S","E">>,
      <<"h","e","l","p">>,
      <<"H","e","l","p">>,
      <<"t","g","m">>,
      <<DQ,"s","s",DQ>>,
      <<"s",BS,"s">> }

\* what follows the first word
Rests ==
    { <<>>,
      <<SP>>,
      <<SP,"h","e","l","p">>,
      <<SP,"-","-","h","e","l","p">>,
      <<SP,"-","-","v","e","r","s","i","o","n">>,
      <<SP,"-","x">>,
      <<SP,"q","u","e","r","y">>,
      <<SP,"q",SP,"s","e","l","e","c","t",SP,"1">>,
      <<SP,"Q","U","E","R","Y",SP,"s","e","l","e","c","t",SP,"1">>,
      <<SP,"q","u","e","r","y",SP,"s","e","l","e","c","t",SP,"f","r","o","m">>,
      <<SP,"q","u","e","r","y",SP,"-","-","i","n","t","-","a","s","-","d","e","c","i","m","a","l",SP,"s","e","l","e","c","t",SP,"1">>,
      <<SP,"q","u","e","r","y",SP,"s","e","l","e","c","t",SP,"-","-","i","n","t","-","a","s","-","d","e","c","i","m","a","l">>,
      <<SP,"q","u","e","r","y",SP,"-","-","b","o","g","u","s">>,
      <<SP,"q","u","e","r","y",SP,"-","-","i","n","t","-","a","s","-","d","e","c","i","m","a","l">>,
      <<SP,"q","u","e","r","y",SP,"-","-","h","e","l","p">>,
      <<SP,"b","o","g","u","s">>,
      <<SP,DQ,"a","b","c">>,
      <<SP,SQ,"a","b","c">>,
      <<SP,BS>>,
      <<SP,HASH,SP,"q","u","e","r","y">>,
      <<SP,"q","u","e","r","y",SP,DQ,"s","e","l","e","c","t",SP,"1",DQ>>,
      <<SP,"-","-",SP,"q","u","e","r","y">> }

\* inputs without a first word, undecodable or unbalanced from the start
Specials ==
    { <<>>,
      <<SP>>,
      <<SP,SP>>,
      <<TAB>>,
      <<HASH,SP,"t","g","m">>,
      <<CR>>,
      <<BAD>>,
      <<"s","s",SP,BAD>>,
      <<DQ>>,
      <<SQ,"s","s">> }

Inputs ==
    {l \o f \o r : l \in Leads, f \in Firsts, r \in Rests} \cup Specials

\* param1..param4 as the host passes them
Params == { <<1, 2, 3, 4>>, <<5, 6, 7, 8>> }

\* no store is consulted unless the query subcommand is reached
NoDb == [err |-> "unused"]

ReachesQuery(bytes) ==
    LET ev == closure(bytes, [err |-> "prepare", cause |-> ""]).ev
    IN  \E e \in 1..Len(ev) : ev[e].op = "process_query_command"

----------------------------------------------------------------------------
(* print (console.rs:154-179) on bytes                                     *)

\* console.rs:160, the size the comment at console.rs:158 gives
BufferSize == 1024

ReplacementCharacter == <<239, 191, 189>>

\* String::from_utf8_lossy on ASCII text with stray non-ASCII bytes
from_utf8_lossy(b) ==
    IF \A i \in 1..Len(b) : b[i] < 128 THEN b
    ELSE Flatten([i \in 1..Len(b) |->
                    IF b[i] < 128 THEN <<b[i]>> ELSE ReplacementCharacter])

\* msg.split("\n"): the pieces between the newlines, empty ones included
split_newline(b) ==
    LET P == {i \in 1..Len(b) : b[i] = 10}
        pos(k) == IF k = 0 THEN 0
                  ELSE IF k > Cardinality(P) THEN Len(b) + 1
                  ELSE CHOOSE p \in P : Cardinality({q \in P : q <= p}) = k
    IN  [k \in 1..(Cardinality(P) + 1) |-> SubSeq(b, pos(k-1) + 1, pos(k) - 1)]

chunks_oversized(b, n) ==
    [k \in 1..((Len(b) + n) \div (n + 1)) |->
        SubSeq(b, (k - 1) * (n + 1) + 1, Min(k * (n + 1), Len(b)))]

\* slice::chunks(n)
chunks(b, n) ==
    [k \in 1..((Len(b) + n - 1) \div n) |->
        SubSeq(b, (k - 1) * n + 1, Min(k * n, Len(b)))]

\* CString::new fails on a byte string with a 0 in it
CStringNew(b) == IF \E i \in 1..Len(b) : b[i] = 0 THEN None ELSE Some(b)

ConsoleAlwaysReady(ctx_null) == TRUE

\* console.rs:166
ConsoleReady(ctx_null) == ~ctx_null

\* console.rs:167-173: the chunks are handed over in order; msg? leaves the
\* try block at the first chunk that CString::new refused
DeliverChunks(cstrings) ==
    LET bad == {i \in 1..Len(cstrings) : ~cstrings[i].some}
        stop == IF bad = {} THEN Len(cstrings) + 1
                ELSE CHOOSE i \in bad : \A j \in bad : i <= j
    IN  [delivered |-> [i \in 1..(stop - 1) |-> cstrings[i].v],
         log |-> IF bad = {} THEN "ok" ELSE "err"]

\* print: what reaches print_to_console and what reaches logging_ok
print(bytes, ctx_null) ==
    LET msg == from_utf8_lossy(bytes)
        msgs == split_newline(msg)
        cs == Flatten([i \in 1..Len(msgs) |-> chunks(msgs[i], BufferSize)])
        cstrings == [i \in 1..Len(cs) |-> CStringNew(cs[i])]
    IN  IF ConsoleReady(ctx_null) THEN DeliverChunks(cstrings)
        ELSE [delivered |-> <<>>, log |-> "ok"]

\* the texts print is called with: up to MaxLines lines, of lengths around
\* the buffer size, with or without a 0 byte
MaxLines == 2
LineLens == {0, 1, 1024, 1025, 3000}
NullAts == {0, 1, 1025}

\* a line of length len, distinguishable bytes, a 0 at nullAt if nullAt > 0
LineOf(len, nullAt, salt) ==
    [i \in 1..len |-> IF i = nullAt THEN 0 ELSE 33 + ((i + 17 * salt) % 90)]

LineSet ==
    UNION { {LineOf(len, na, na + 1) : na \in {a \in NullAts : a <= len}} :
            len \in LineLens }

TextLines == UNION {[1..k -> LineSet] : k \in 1..MaxLines}

RECURSIVE JoinLines(_)
JoinLines(ls) ==
    IF Len(ls) = 0 THEN <<>>
    ELSE IF Len(ls) = 1 THEN ls[1]
    ELSE ls[1] \o <<10>> \o JoinLines(Tail(ls))

----------------------------------------------------------------------------
(* init (console.rs:181-193), then the host calling its console input      *)
(* routine, which once the detour is enabled is new_process_console_input  *)

\* the host makes its calls until MaxQueries statements have been run
MaxQueries == 2

NoCall ==
    /\ raw = <<>>
    /\ params = <<0, 0, 0, 0>>
    /\ store = NoDb
    /\ trace = <<>>
    /\ result = "idle"

NoPrint ==
    /\ lines = <<>>
    /\ ctxNull = TRUE
    /\ hostPrints = <<>>
    /\ printLog = "none"

NoCell ==
    /\ cellVal = 0
    /\ cellDec = FALSE
    /\ cellText = "none"

Init ==
    /\ initPc = "assign"
    /\ initResult = "none"
    /\ assigned = 0
    /\ installed = 0
    /\ enabled = 0
    /\ dbLock = "free"
    /\ queries = 0
    /\ alive = TRUE
    /\ NoCall
    /\ NoPrint
    /\ NoCell

\* console.rs:182-185
InitAssign ==
    /\ initPc = "assign"
    /\ assigned' = assigned + 1
    /\ initPc' = "initialize"
    /\ UNCHANGED <<initResult, installed, enabled>>
    /\ UNCHANGED <<hookVars, printVars, cellVars>>

AfterInstallUnchecked(ok) == "enable"

\* the ? of console.rs:189: where init goes on after initialize
AfterInstall(ok) == IF ok THEN "enable" ELSE "returned"

\* console.rs:187-189: the detour library installs the hook or refuses
InitInstall ==
    /\ initPc = "initialize"
    /\ \E ok \in BOOLEAN :
         /\ installed' = IF ok THEN installed + 1 ELSE installed
         /\ initPc' = AfterInstall(ok)
         /\ initResult' = IF AfterInstall(ok) = "returned"
                          THEN "Err(initialize)" ELSE initResult
    /\ UNCHANGED <<assigned, enabled>>
    /\ UNCHANGED <<hookVars, printVars, cellVars>>

\* console.rs:190-192
InitEnable ==
    /\ initPc = "enable"
    /\ \E ok \in BOOLEAN :
         /\ enabled' = IF ok THEN enabled + 1 ELSE enabled
         /\ initResult' = IF ok THEN "Ok" ELSE "Err(enable)"
    /\ initPc' = "returned"
    /\ UNCHANGED <<assigned, installed>>
    /\ UNCHANGED <<hookVars, printVars, cellVars>>

\* the host has put an input in its console buffer and calls its console
\* input routine; the call reaches the hook when the detour is enabled
HostCall ==
    /\ enabled > 0
    /\ alive
    /\ result = "idle"
    /\ queries < MaxQueries
    /\ raw' \in Inputs
    /\ params' \in Params
    /\ store' \in (IF ReachesQuery(raw') THEN DbOutcomes ELSE {NoDb})
    /\ result' = "none"
    /\ UNCHANGED <<trace, dbLock, queries, alive>>
    /\ UNCHANGED <<initVars, printVars, cellVars>>

RECURSIVE LockAfter(_, _)
\* the state of the Mutex after the events ev
LockAfter(ev, lock) ==
    IF ev = <<>> THEN lock
    ELSE LockAfter(Tail(ev), IF Head(ev).op = "DB.lock" THEN "held"
                             ELSE IF Head(ev).op = "DB.unlock" THEN "free"
                             ELSE lock)

\* new_process_console_input runs.  DB.lock() on a Mutex this thread holds
\* does not return.
Intercept ==
    /\ alive
    /\ result = "none"
    /\ IF dbLock = "held" /\ ReachesQuery(raw)
       THEN /\ trace' = <<>>
            /\ result' = "hang"
            /\ alive' = FALSE
            /\ UNCHANGED <<dbLock, queries>>
       ELSE \E r \in {new_process_console_input(raw, params, store)} :
                /\ trace' = r.ev
                /\ result' = r.ret
                /\ alive' = (r.ret # "panic")
                /\ dbLock' = LockAfter(trace', dbLock)
                /\ queries' = queries + Cardinality({e \in 1..Len(trace') :
                                                       trace'[e].op = "DB.lock"})
    /\ UNCHANGED <<raw, params, store>>
    /\ UNCHANGED <<initVars, printVars, cellVars>>

\* the call has returned to the host, which goes on to its next input
Return ==
    /\ result \in {"Ok(false)", "Ok(true)", "Err"}
    /\ raw' = <<>>
    /\ params' = <<0, 0, 0, 0>>
    /\ store' = NoDb
    /\ trace' = <<>>
    /\ result' = "idle"
    /\ UNCHANGED <<dbLock, queries, alive>>
    /\ UNCHANGED <<initVars, printVars, cellVars>>

Next == InitAssign \/ InitInstall \/ InitEnable \/ HostCall \/ Intercept \/ Return
Spec == Init /\ [][Next]_vars

\* init has returned Ok
Initialized ==
    /\ initPc = "returned"
    /\ initResult = "Ok"
    /\ assigned = 1
    /\ installed = 1
    /\ enabled = 1
    /\ dbLock = "free"
    /\ queries = 0
    /\ alive = TRUE

----------------------------------------------------------------------------
(* The output channel alone: one call of print on a text                   *)

InitPrint ==
    /\ Initialized
    /\ NoCall
    /\ lines \in TextLines
    /\ ctxNull \in BOOLEAN
    /\ hostPrints = <<>>
    /\ printLog = "none"
    /\ NoCell

PrintCall ==
    /\ printLog = "none"
    /\ LET r == print(JoinLines(lines), ctxNull)
       IN  /\ hostPrints' = r.delivered
           /\ printLog' = r.log
    /\ UNCHANGED <<lines, ctxNull>>
    /\ UNCHANGED <<initVars, hookVars, cellVars>>

NextPrint == PrintCall
SpecPrint == InitPrint /\ [][NextPrint]_vars

----------------------------------------------------------------------------
(* The rendering of one integer cell alone (console.rs:128-134)            *)

\* the cells are the integers of absolute value up to MaxInt
MaxInt == 300

InitCell ==
    /\ Initialized
    /\ NoCall
    /\ NoPrint
    /\ cellVal \in (-MaxInt)..MaxInt
    /\ cellDec \in BOOLEAN
    /\ cellText = "none"

RenderCell ==
    /\ cellText = "none"
    /\ cellText' = CellRepr(ValInteger(cellVal), cellDec)
    /\ UNCHANGED <<cellVal, cellDec>>
    /\ UNCHANGED <<initVars, hookVars, printVars>>

NextCell == RenderCell
SpecCell == InitCell /\ [][NextCell]_vars

----------------------------------------------------------------------------
(* State functions the properties are written with                        *)

Done == result \notin {"idle", "none"}

Count(op) == Cardinality({e \in 1..Len(trace) : trace[e].op = op})
OrigCalls == Count("ProcessConsoleInput.call")

IsPrintEvent(e) == e.op = "print"
\* the texts written to the Output Channel, in order
Written == LET ps == SelectSeq(trace, IsPrintEvent)
           IN  [i \in 1..Len(ps) |-> ps[i].msg]

Decoded == \A i \in 1..Len(raw) : raw[i] # BAD
Tokens == shlex_split(raw)
\* tokenization succeeded and the first token is a reserved alias
AliasFirst ==
    /\ Decoded /\ Len(raw) > 0
    /\ Tokens.some /\ Len(Tokens.v) > 0
    /\ to_ascii_lowercase(Tokens.v[1]) \in SKYRIM_SEARCH_COMMANDS
Parsed == get_matches_from_safe(Tokens.v)

\* a failure after the alias was recognised: a grammar violation, or the
\* store refusing to prepare, execute or iterate
FailureFollows ==
    /\ AliasFirst
    /\ \/ ~Parsed.ok /\ Parsed.kind \notin {"HelpDisplayed", "VersionDisplayed"}
       \/ Parsed.ok /\ store.err \in {"prepare", "query"}
       \/ Parsed.ok /\ store.err = "none" /\ store.columns.some /\ store.iter_err

----------------------------------------------------------------------------
(* Properties of the hook, under Spec                                      *)

\* C1: every interception call either calls the original handler exactly
\* once or handles the input locally and returns without calling it; never
\* both and never neither.
C1_ForwardXorHandle ==
    Done => \/ OrigCalls = 1 /\ result = "Ok(false)"
            \/ OrigCalls = 0 /\ result \in {"Ok(true)", "Err"}

\* C2: no interception call panics, and an input whose tokenization is empty
\* or fails falls through to the original handler.
C2_NeverPanics ==
    Done => /\ result # "panic"
            /\ Count("panic") = 0
            /\ (Decoded /\ (~Tokens.some \/ Tokens.v = <<>>)) => OrigCalls = 1

\* C3: for every input that does not start with a reserved alias the grammar
\* parser and the Query Executor are not run and the original handler is
\* called exactly once with param1..param4 as received.
C3_NotMineForwardsUnchanged ==
    (Done /\ ~AliasFirst) =>
        /\ Count("get_matches_from_safe") = 0
        /\ Count("process_query_command") = 0
        /\ OrigCalls = 1
        /\ \A e \in 1..Len(trace) :
              trace[e].op = "ProcessConsoleInput.call" => trace[e].args = params

\* C4: when a failure follows a recognised alias, the last thing the call
\* does is write a non-empty error message to the Output Channel, and the
\* original handler is not called.
C4_FailureReportedNotForwarded ==
    (Done /\ FailureFollows) =>
        /\ OrigCalls = 0
        /\ trace # <<>>
        /\ trace[Len(trace)].op = "print"
        /\ Len(trace[Len(trace)].msg) > 0
        /\ trace[Len(trace)].msg \notin {UsageMsg, ParseFailedMsg}

C4_Witness ==
    /\ Done /\ FailureFollows /\ store.err = "prepare"
    /\ Written[Len(Written)] = "prepare error: near \"from\": syntax error"

\* C5: the Query Executor is entered only after tokenization succeeded, the
\* first token was a reserved alias and the grammar accepted the tokens as
\* the query subcommand with at least one SQL token, which is what it is
\* entered with.
C5_QueryOnlyWhenParsed ==
    \A e \in 1..Len(trace) :
        trace[e].op = "process_query_command" =>
            /\ AliasFirst
            /\ Parsed.ok /\ Parsed.subcommand = "query"
            /\ trace[e].matches = Parsed
            /\ Len(trace[e].matches.sql) >= 1
            /\ \E c \in 1..(e - 1) : trace[c].op = "get_matches_from_safe"

C5_Witness ==
    /\ Count("process_query_command") = 1
    /\ result = "Ok(true)"
    /\ Parsed.int_as_decimal

\* C6: for an input that is a reserved alias followed by the token help,
\* the Output Channel receives exactly a usage message and nothing else,
\* and the original handler is not called.
C6_AliasHelpPrintsUsageOnly ==
    (Done /\ AliasFirst /\ Len(Tokens.v) = 2 /\ Tokens.v[2] = HelpWord) =>
        /\ OrigCalls = 0
        /\ Len(Written) = 1
        /\ Written[1] \in {UsageMsg, ClapHelp, ClapHelp \o "\n"}

\* C7: when tokenization of a non-empty input fails, the original handler is
\* called exactly once, and the parse-failed diagnostic is written if and
\* only if the first whitespace-delimited word is a reserved alias in any
\* letter case.
C7_ParseFailedDiagnostic ==
    (Done /\ Decoded /\ Len(raw) > 0 /\ ~Tokens.some) =>
        /\ OrigCalls = 1
        /\ (\E i \in 1..Len(Written) : Written[i] = ParseFailedMsg)
             <=> /\ first_word(raw).some
                 /\ to_ascii_lowercase(first_word(raw).v)
                       \in SKYRIM_SEARCH_COMMANDS

----------------------------------------------------------------------------
(* Properties of print, under SpecPrint                                    *)

Printed == printLog # "none"
HasNull(b) == \E i \in 1..Len(b) : b[i] = 0
NullFree(b) == ~HasNull(b)

\* C8: with a console state that is not null, every chunk without a 0 byte
\* is delivered, in order, whether it comes before or after a chunk with one.
C8_NullChunkSkippedAlone ==
    (Printed /\ ~ctxNull) =>
        hostPrints =
            SelectSeq(Flatten([i \in 1..Len(lines) |->
                                 chunks(lines[i], BufferSize)]), NullFree)

\* the number of host print invocations a line of length L is due
Invocations(L) == (L + 1023) \div 1024

RECURSIVE InvocationsBefore(_)
\* the number of invocations due to the lines before line i
InvocationsBefore(i) ==
    IF i <= 1 THEN 0
    ELSE InvocationsBefore(i - 1) + Invocations(Len(lines[i - 1]))

\* C9: for a text without 0 bytes and a console state that is not null, each
\* line is delivered as ceil(L/1024) invocations of at most 1024 bytes, in
\* order, whose concatenation is the line.
C9_ChunksReconstructLines ==
    (Printed /\ ~ctxNull /\ \A i \in 1..Len(lines) : NullFree(lines[i])) =>
        /\ Len(hostPrints) = InvocationsBefore(Len(lines) + 1)
        /\ \A k \in 1..Len(hostPrints) : Len(hostPrints[k]) <= 1024
        /\ \A i \in 1..Len(lines) :
              Flatten(SubSeq(hostPrints, InvocationsBefore(i) + 1,
                             InvocationsBefore(i + 1))) = lines[i]

C9_Witness ==
    /\ Printed /\ ~ctxNull
    /\ Len(lines) = 2 /\ Len(lines[1]) = 3000 /\ Len(lines[2]) = 1025
    /\ NullFree(lines[1]) /\ NullFree(lines[2])
    /\ Len(hostPrints) = 5
    /\ Len(hostPrints[3]) = 952

\* C10: when the console state is null, print makes no invocation of the
\* host print routine and reports no failure, whatever the text.
C10_NullConsolePrintsNothing ==
    (Printed /\ ctxNull) => hostPrints = <<>> /\ printLog = "ok"

C10_Witness ==
    /\ Printed /\ ctxNull
    /\ \E i \in 1..Len(lines) : HasNull(lines[i])
    /\ \E i \in 1..Len(lines) : Len(lines[i]) > 1024

----------------------------------------------------------------------------
(* Properties of the Query Executor, under Spec                            *)

QueryRan == Count("process_query_command") = 1
\* the statement was prepared and executed
Executed == Done /\ QueryRan /\ store.err = "none"

\* the cells of the first k rows the store yields, as the loop renders them
RenderedRows(k) ==
    [r \in 1..k |-> [i \in 1..store.columns.v |->
                        CellRepr(store.rows[r][i], Parsed.int_as_decimal)]]
Header == SubSeq(ColumnNames, 1, store.columns.v)

\* C11: a statement that prepares and executes and yields no column
\* metadata fails with 'no data' and no table is printed; one that yields
\* at least one column and zero rows succeeds and prints a table with the
\* header row and zero body rows.
C11_NoDataOrHeaderOnly ==
    (Executed /\ ~store.iter_err) =>
        /\ (~store.columns.some \/ store.columns.v = 0) =>
              /\ result = "Err"
              /\ Written[Len(Written)] = "no data"
              /\ Len(Written) = 4
        /\ (store.columns.some /\ store.columns.v >= 1 /\ store.rows = <<>>) =>
              /\ result = "Ok(true)"
              /\ Written[Len(Written)] =
                    TableToString([titles |-> Some(Header), rows |-> <<>>])

\* C12: when iterating the cursor fails after k >= 0 rows, the command ends
\* with an error that wraps the cause, neither the k rows nor a header are
\* written, and the original handler is not called.
C12_IterationErrorDiscardsTable ==
    (Executed /\ store.columns.some /\ store.iter_err) =>
        /\ result = "Err"
        /\ OrigCalls = 0
        /\ Written[Len(Written)] = "rows.next() error: " \o IterCause
        /\ Len(Written) = 4
        /\ \A i \in 1..Len(Written), k \in 0..Len(store.rows) :
              /\ Written[i] # TableToString([titles |-> Some(Header),
                                             rows |-> RenderedRows(k)])
              /\ Written[i] # TableToString([titles |-> None,
                                             rows |-> RenderedRows(k)])

C12_Witness ==
    /\ Executed /\ store.columns.some /\ store.iter_err
    /\ Len(store.rows) >= 2
    /\ result = "Err"

\* C17: a query command takes the store lock before it prepares the
\* statement and gives it back after the table is written and on every
\* other way out, so that the lock is free whenever no query is running and
\* the next query takes it.
C17_LockHeldThenReleased ==
    /\ dbLock = "free"
    /\ result # "hang"
    /\ Count("DB.lock") = Count("process_query_command")
    /\ Count("DB.unlock") = Count("DB.lock")
    /\ \A e \in 1..Len(trace) :
          trace[e].op = "process_query_command" =>
              /\ e < Len(trace) /\ trace[e + 1].op = "DB.lock"
              /\ \E u \in (e + 2)..Len(trace) :
                    /\ trace[u].op = "DB.unlock"
                    /\ \A m \in (e + 2)..(u - 1) : trace[m].op = "print"
                    /\ \A m \in (u + 1)..Len(trace) :
                          trace[m].op = "print" /\ result = "Err"
                    /\ result = "Ok(true)" =>
                          /\ u = Len(trace)
                          /\ trace[u - 1].op = "print"
                          /\ trace[u - 1].msg =
                                TableToString([titles |-> Some(Header),
                                    rows |-> RenderedRows(Len(store.rows))])

C17_Witness ==
    /\ queries = 2 /\ QueryRan /\ Done
    /\ result = "Err" /\ store.err = "query"
    /\ dbLock = "free"

----------------------------------------------------------------------------
(* Properties of init and of the routing, under Spec                       *)

\* C14: init assigns the console handle, then installs the hook, then
\* enables it, each once; no interception call happens before the handle is
\* assigned and the hook enabled; a failed installation returns an error
\* without enabling, a failed enabling returns an error.
C14_InitOrder ==
    /\ assigned <= 1 /\ installed <= 1 /\ enabled <= 1
    /\ initPc # "assign" => assigned = 1
    /\ installed = 1 => assigned = 1 /\ initPc \in {"enable", "returned"}
    /\ enabled = 1 => installed = 1 /\ initPc = "returned"
    /\ result # "idle" => assigned = 1 /\ installed = 1 /\ enabled = 1
    /\ initResult = "Ok" <=> enabled = 1
    /\ initResult = "Err(initialize)" <=> initPc = "returned" /\ installed = 0
    /\ initResult = "Err(enable)" <=>
          initPc = "returned" /\ installed = 1 /\ enabled = 0
    /\ initResult = "none" <=> initPc # "returned"

C14_Witness ==
    /\ Done /\ initResult = "Ok"
    /\ assigned = 1 /\ installed = 1 /\ enabled = 1
    /\ \E e \in 1..Len(trace) : trace[e].op = "print"

\* C15 as stated: when the input bytes cannot be decoded, the failure is
\* written to the Output Channel and the original handler is called exactly
\* once, without tokenization, grammar parser or Query Executor.
C15_DecodeFailureOnConsole ==
    (Done /\ ~Decoded) =>
        /\ Len(Written) >= 1
        /\ OrigCalls = 1
        /\ Count("shlex::split") = 0
        /\ Count("get_matches_from_safe") = 0
        /\ Count("process_query_command") = 0

\* C15 as amended: when the input bytes cannot be decoded, the failure is
\* reported with output_debug_string, nothing is written to the Output
\* Channel, and the original handler is called exactly once with the
\* arguments as received, without tokenization, grammar parser or Query
\* Executor.
C15_DecodeFailureToDebugger ==
    (Done /\ ~Decoded) =>
        /\ Count("output_debug_string") = 1
        /\ Written = <<>>
        /\ OrigCalls = 1
        /\ trace[Len(trace)] = EvOriginal(params)
        /\ Count("shlex::split") = 0
        /\ Count("get_matches_from_safe") = 0
        /\ Count("process_query_command") = 0

C15_Witness ==
    /\ Done /\ ~Decoded /\ Len(raw) > 1
    /\ trace[1].op = "output_debug_string"

\* tokenization succeeded and the first token is not a reserved alias
OtherFirst ==
    /\ Decoded /\ Len(raw) > 0
    /\ Tokens.some /\ Len(Tokens.v) > 0
    /\ to_ascii_lowercase(Tokens.v[1]) \notin SKYRIM_SEARCH_COMMANDS

UsageWrites == {e \in 1..Len(trace) : trace[e] = EvPrint(UsageMsg)}

\* C16: when the lower-cased first token is help, the usage line is written
\* exactly once, after the one call of the original handler; for every other
\* first token that is not an alias no usage line is written.
C16_HelpForwardsThenUsage ==
    (Done /\ OtherFirst) =>
        IF to_ascii_lowercase(Tokens.v[1]) = <<"h","e","l","p">>
        THEN /\ Cardinality(UsageWrites) = 1
             /\ OrigCalls = 1
             /\ \A u \in UsageWrites :
                   \E o \in 1..(u - 1) : trace[o] = EvOriginal(params)
        ELSE UsageWrites = {}

C16_Witness ==
    /\ Done /\ OtherFirst
    /\ Tokens.v[1] = <<"H","e","l","p">>
    /\ Len(Tokens.v) > 1
    /\ trace[Len(trace)] = EvPrint(UsageMsg)
    /\ trace[Len(trace) - 1] = EvOriginal(params)

----------------------------------------------------------------------------
(* Properties of the rendering of integer cells, under SpecCell            *)

\* the hexadecimal digit of n at position p (0 the lowest)
HexAt(n, p) ==
    HexDigits[((n \div (IF p = 0 THEN 1 ELSE IF p = 1 THEN 16
                        ELSE IF p = 2 THEN 256 ELSE 4096)) % 16) + 1]
\* the four hexadecimal digits of n in 0..65535
Hex4(n) == HexAt(n, 3) \o HexAt(n, 2) \o HexAt(n, 1) \o HexAt(n, 0)
\* the hexadecimal digits of n in 0..65535 without leading zeros
HexPlain(n) ==
    IF n < 16 THEN HexAt(n, 0)
    ELSE IF n < 256 THEN HexAt(n, 1) \o HexAt(n, 0)
    ELSE IF n < 4096 THEN HexAt(n, 2) \o HexAt(n, 1) \o HexAt(n, 0)
    ELSE Hex4(n)
DecAt(n, p) ==
    DecDigits[((n \div (IF p = 0 THEN 1 ELSE IF p = 1 THEN 10
                        ELSE IF p = 2 THEN 100 ELSE 1000)) % 10) + 1]
\* the decimal digits of n in 0..9999 without leading zeros
DecPlain(n) ==
    IF n < 10 THEN DecAt(n, 0)
    ELSE IF n < 100 THEN DecAt(n, 1) \o DecAt(n, 0)
    ELSE IF n < 1000 THEN DecAt(n, 2) \o DecAt(n, 1) \o DecAt(n, 0)
    ELSE DecAt(n, 3) \o DecAt(n, 2) \o DecAt(n, 1) \o DecAt(n, 0)

\* C13: an integer cell v is rendered as the decimal string of v when
\* int-as-decimal is set, and otherwise as 0x followed by the lowercase
\* hexadecimal digits of v mod 2^64 without leading zeros; for v in
\* -65536..-1 that number is 0xffffffffffff0000 + (65536 + v).
C13_IntegerRendering ==
    cellText # "none" =>
        /\ cellDec /\ cellVal >= 0 => cellText = DecPlain(cellVal)
        /\ cellDec /\ cellVal < 0 => cellText = "-" \o DecPlain(-cellVal)
        /\ ~cellDec /\ cellVal >= 0 => cellText = "0x" \o HexPlain(cellVal)
        /\ ~cellDec /\ cellVal < 0 =>
              cellText = "0xffffffffffff" \o Hex4(65536 + cellVal)
        /\ cellVal = 255 => cellText = IF cellDec THEN "255" ELSE "0xff"
        /\ cellVal = -1 =>
              cellText = IF cellDec THEN "-1" ELSE "0xffffffffffffffff"

C13_Witness ==
    /\ cellVal = -1 /\ ~cellDec
    /\ cellText = "0xffffffffffffffff"
====
